---- MODULE Spec2Model ----
(***************************************************************************)
(* Model of custom_components/Philips_Pet_Series/__init__.py:              *)
(*   - PhilipsPetsSeriesDataUpdateCoordinator._async_update_data, one      *)
(*     action per await point of the coroutine;                            *)
(*   - async_setup_entry and async_unload_entry, one action per await.     *)
(* The vendor client, the local-status query and the platform calls are    *)
(* the environment: each call returns what the account holds, or raises.   *)
(***************************************************************************)
EXTENDS Integers, Sequences, FiniteSets, TLC

(* ------------------------------ bounds -------------------------------- *)
\* Homes of the account, devices of a home, event types of the enumeration.
MaxHomes == 2
MaxDevices == 2
NumEventTypes == 2
\* Homes of the account where refreshes are triggered at any time.
MaxHomesInterleaved == 1

(* ------------------------------ values -------------------------------- *)
\* The error texts a client call can raise with; a text is a sequence of words.
ErrorTexts == { <<"invalid_client", "bad", "credentials">>, <<"network", "error">> }

\* The exception raised when the return statement reads the unassigned local.
UnboundLocalError == <<"UnboundLocalError", "base_data">>

\* The coroutines that can run _async_update_data: the first refresh of the
\* setup, the refresh of the update interval, the explicitly requested one.
Tasks == {"first", "timer", "manual"}

\* Stamps telling the responses given to one build from those given to another.
Gens == 0 .. 3

NoneStatus == [kind |-> "None"]

\* The configuration instance (entry.entry_id).
Entry == "entry_id"

NoReason == <<>>

VARIABLES cloud, phase, client, hass_data, forwarded, coordinator,
          task, setup_result, unload_result, unload_log

vars == <<cloud, phase, client, hass_data, forwarded, coordinator,
          task, setup_result, unload_result, unload_log>>

(* --------------------- the account (the environment) ------------------ *)
\* What the vendor account holds. Homes are named by their listing position.
Clouds ==
    { c \in [ nHomes : 0 .. MaxHomes,
              devCount : [1 .. MaxHomes -> 0 .. MaxDevices],
              hasMeal : BOOLEAN,
              quietType : 0 .. NumEventTypes,
              tuya : BOOLEAN ] :
        \A h \in 1 .. MaxHomes :
            h > c.nHomes => c.devCount[h] = 0 }

get_homes(g) == [i \in 1 .. cloud.nHomes |-> [id |-> i, gen |-> g]]

get_devices(home, g) ==
    [k \in 1 .. cloud.devCount[home.id] |-> [id |-> <<home.id, k>>, gen |-> g]]

get_event_types == [i \in 1 .. NumEventTypes |-> [kind |-> "enum", value |-> i]]

get_events(home, event_type, g) ==
    IF event_type.value = cloud.quietType
    THEN <<>>
    ELSE << [home |-> home.id, type |-> event_type.value, gen |-> g] >>

get_settings(home, device_id, g) ==
    "payload" :> [kind |-> "settings", device |-> device_id, gen |-> g]

get_meals(home, g) ==
    IF cloud.hasMeal THEN << [home |-> home.id, gen |-> g] >> ELSE <<>>

\* The q-th local-status query of the build stamped g.
get_tuya_status(g, q) == [kind |-> "status", gen |-> g, q |-> q]

(* ------------------------- _async_update_data ------------------------- *)
IdleTask ==
    [ pc |-> "idle", gen |-> 0, homes |-> <<>>, hi |-> 0, ei |-> 0, di |-> 0,
      home_devices |-> <<>>, devices |-> <<>>, meals |-> <<>>,
      events_by_home_and_type |-> <<>>, settings |-> <<>>,
      base_data |-> <<>>, base_bound |-> FALSE, calls |-> <<>> ]

\* The awaits of a build that are client calls or local-status queries.
CallPcs == {"get_homes", "get_devices", "get_events", "get_settings",
            "tuya_device", "get_meals", "tuya_base"}

SleepPcs == {"sleep_devices", "sleep_events", "sleep_settings", "sleep_home"}

InFlight(t) == task[t].pc # "idle"

\* The local-status queries the build has issued so far.
TuyaQueries(T) == Cardinality({i \in 1 .. Len(T.calls) : T.calls[i][1] = "get_tuya_status"})

EventTypeStr(event_type) ==
    IF event_type.kind = "str" THEN event_type
    ELSE IF "value" \in DOMAIN event_type THEN event_type.value
    ELSE <<"str", event_type>>

\* The key built from the home alone.
HomeOnlyKey(home, event_type) == <<home.id, "_">>

EventKey(home, event_type) == <<home.id, "_", EventTypeStr(event_type)>>

\* The build suspends in call c (appended to its log) at position p.
Issue(T, p, c) == [T EXCEPT !.pc = p, !.calls = Append(@, c)]

IssueGetDevices(T, i) ==
    Issue([T EXCEPT !.hi = i], "get_devices", <<"get_devices", T.homes[i].id>>)

IssueGetEvents(T, i) ==
    Issue([T EXCEPT !.ei = i], "get_events",
          <<"get_events", T.homes[T.hi].id, get_event_types[i].value>>)

IssueGetMeals(T) == Issue(T, "get_meals", <<"get_meals", T.homes[T.hi].id>>)

\* for device in home_devices: ... from the i-th device on, then the meals.
SettingsLoop(T, i) ==
    IF i <= Len(T.home_devices)
    THEN Issue([T EXCEPT !.di = i], "get_settings",
               <<"get_settings", T.homes[T.hi].id, T.home_devices[i].id>>)
    ELSE IssueGetMeals(T)

\* The loop over the event types left out.
EventsSkipped(T, i) == SettingsLoop(T, 1)

\* for event_type in event_types: ... from the i-th type on, then the settings.
EventsLoop(T, i) ==
    IF i <= Len(get_event_types) THEN IssueGetEvents(T, i) ELSE SettingsLoop(T, 1)

\* devices kept from the published snapshot instead of devices = [].
StaleDevices(t) ==
    IF coordinator.data # <<>> THEN coordinator.data[1].devices ELSE <<>>

InitialDevices(t) == <<>>

\* meals kept from the published snapshot instead of meals = [].
StaleMeals(t) ==
    IF coordinator.data # <<>> THEN coordinator.data[1].meals ELSE <<>>

InitialMeals(t) == <<>>

\* devices = home_devices instead of devices.extend(home_devices).
AssignDevices(devices, home_devices) == home_devices

ExtendDevices(devices, home_devices) == devices \o home_devices

ExtendMeals(meals, home_meals) == meals \o home_meals

\* The dict of the return statement.
Snapshot(T) ==
    [ homes |-> T.homes,
      devices |-> T.devices,
      meals |-> T.meals,
      events_by_home_and_type |-> T.events_by_home_and_type,
      event_types |-> get_event_types,
      settings |-> T.settings,
      base_data |-> T.base_data ]

\* The exception raised again as it came.
RaiseAgain(err) == [type |-> "ClientError", cause |-> err]

\* except Exception as err: raise UpdateFailed(...) from err
WrapError(err) == [type |-> "UpdateFailed", cause |-> err]

(* ------------------- the coordinator and the registry ----------------- *)
NoCoordinator ==
    [exists |-> FALSE, data |-> <<>>, last_update_success |-> TRUE, last_exception |-> <<>>]

NewCoordinator ==
    [exists |-> TRUE, data |-> <<>>, last_update_success |-> TRUE, last_exception |-> <<>>]

Registered == \E e \in DOMAIN hass_data : e = Entry

\* Every stamp found in a snapshot.
GensOf(snap) ==
    {snap.homes[i].gen : i \in DOMAIN snap.homes}
    \cup {snap.devices[i].gen : i \in DOMAIN snap.devices}
    \cup {snap.meals[i].gen : i \in DOMAIN snap.meals}
    \cup UNION { {snap.events_by_home_and_type[k][i].gen :
                    i \in DOMAIN snap.events_by_home_and_type[k]} :
                 k \in DOMAIN snap.events_by_home_and_type }
    \cup {snap.settings[d]["payload"].gen : d \in DOMAIN snap.settings}
    \cup UNION { IF snap.settings[d]["tuya_status"].kind = "status"
                 THEN {snap.settings[d]["tuya_status"].gen} ELSE {} :
                 d \in DOMAIN snap.settings }
    \cup UNION { IF snap.base_data[k].kind = "status"
                 THEN {snap.base_data[k].gen} ELSE {} : k \in DOMAIN snap.base_data }

UsedGens ==
    {task[t].gen : t \in {u \in Tasks : InFlight(u)}}
    \cup UNION {GensOf(coordinator.data[i]) : i \in DOMAIN coordinator.data}

\* The stamp of the next build: the least one nothing refers to.
FreshGen ==
    IF Gens \subseteq UsedGens THEN 0
    ELSE CHOOSE g \in Gens \ UsedGens : \A h \in Gens \ UsedGens : g <= h

\* The call of _async_update_data: the coroutine runs to its first await.
StartBuild(t) ==
    Issue([IdleTask EXCEPT !.gen = FreshGen], "get_homes", <<"get_homes">>)

\* The build goes on to its next await.
Continue(t, T) ==
    /\ task' = [task EXCEPT ![t] = T]
    /\ UNCHANGED <<cloud, phase, client, hass_data, forwarded, coordinator,
                   setup_result, unload_result, unload_log>>

\* The accumulators of the failed build published.
PartialAfterFailure(t) == <<Snapshot(task[t])>>

\* What a failed refresh leaves published.
DataAfterFailure(t) == coordinator.data

\* async_setup_entry after async_config_entry_first_refresh has returned.
RegisterAndForward ==
    /\ hass_data' = (Entry :> [client |-> "latest", coordinator |-> "latest"])
    /\ phase' = "forward"
    /\ UNCHANGED <<setup_result>>

\* The build returns snap: the coordinator publishes it.
Returned(t, snap) ==
    /\ task' = [task EXCEPT ![t] = IdleTask]
    /\ coordinator' = [coordinator EXCEPT !.data = <<snap>>,
                                          !.last_update_success = TRUE,
                                          !.last_exception = <<>>]
    /\ IF t = "first"
       THEN RegisterAndForward
       ELSE UNCHANGED <<hass_data, phase, setup_result>>
    /\ UNCHANGED <<cloud, client, forwarded, unload_result, unload_log>>

\* The build raises exc: the coordinator keeps its data. The first refresh
\* lets the setup end with ConfigEntryNotReady, and its coordinator is dropped.
Failed(t, exc) ==
    /\ task' = [task EXCEPT ![t] = IdleTask]
    /\ IF t = "first"
       THEN /\ coordinator' = NoCoordinator
            /\ phase' = "not_loaded"
            /\ setup_result' = [value |-> "ConfigEntryNotReady", reason |-> <<exc>>]
       ELSE /\ coordinator' = [coordinator EXCEPT !.data = DataAfterFailure(t),
                                                  !.last_update_success = FALSE,
                                                  !.last_exception = <<exc>>]
            /\ UNCHANGED <<phase, setup_result>>
    /\ UNCHANGED <<cloud, client, hass_data, forwarded, unload_result, unload_log>>

\* return {...}: reading base_data raises when no home assigned it.
ReturnSnapshot(t, T) ==
    IF T.base_bound
    THEN Returned(t, Snapshot(T))
    ELSE Failed(t, WrapError(UnboundLocalError))

\* for home in homes: ... from the i-th home on, then the return.
HomesLoop(t, T, i) ==
    IF i <= Len(T.homes) THEN Continue(t, IssueGetDevices(T, i)) ELSE ReturnSnapshot(t, T)

GetHomesReturns(t) ==
    /\ task[t].pc = "get_homes"
    /\ HomesLoop(t, [task[t] EXCEPT !.homes = get_homes(task[t].gen),
                                    !.devices = InitialDevices(t),
                                    !.meals = InitialMeals(t),
                                    !.events_by_home_and_type = <<>>,
                                    !.settings = <<>>], 1)

\* get_devices without the delay that follows it.
GetDevicesNoSleep(t) ==
    /\ task[t].pc = "get_devices"
    /\ LET T == task[t]
           home_devices == get_devices(T.homes[T.hi], T.gen)
       IN Continue(t, EventsLoop([T EXCEPT !.home_devices = home_devices,
                                           !.devices = ExtendDevices(@, home_devices)], 1))

GetDevicesReturns(t) ==
    /\ task[t].pc = "get_devices"
    /\ LET T == task[t]
           home_devices == get_devices(T.homes[T.hi], T.gen)
       IN Continue(t, Issue([T EXCEPT !.home_devices = home_devices,
                                      !.devices = ExtendDevices(@, home_devices)],
                            "sleep_devices", <<"sleep">>))

SleepDevicesDone(t) ==
    /\ task[t].pc = "sleep_devices"
    /\ Continue(t, EventsLoop(task[t], 1))

GetEventsReturns(t) ==
    /\ task[t].pc = "get_events"
    /\ LET T == task[t]
           home == T.homes[T.hi]
           event_type == get_event_types[T.ei]
           home_events == get_events(home, event_type, T.gen)
           key == EventKey(home, event_type)
       IN Continue(t, Issue([T EXCEPT !.events_by_home_and_type =
                                          (key :> home_events) @@ @],
                            "sleep_events", <<"sleep">>))

SleepEventsDone(t) ==
    /\ task[t].pc = "sleep_events"
    /\ Continue(t, EventsLoop(task[t], task[t].ei + 1))

\* get_settings without the else branch that sets tuya_status to None.
GetSettingsNoElse(t) ==
    /\ task[t].pc = "get_settings"
    /\ LET T == task[t]
           device == T.home_devices[T.di]
           device_settings == get_settings(T.homes[T.hi], device.id, T.gen)
       IN IF cloud.tuya
          THEN Continue(t, Issue([T EXCEPT !.settings = (device.id :> device_settings) @@ @],
                                 "tuya_device", <<"get_tuya_status">>))
          ELSE Continue(t, Issue([T EXCEPT !.settings = (device.id :> device_settings) @@ @],
                                 "sleep_settings", <<"sleep">>))

GetSettingsReturns(t) ==
    /\ task[t].pc = "get_settings"
    /\ LET T == task[t]
           device == T.home_devices[T.di]
           device_settings == get_settings(T.homes[T.hi], device.id, T.gen)
       IN IF cloud.tuya
          THEN Continue(t, Issue([T EXCEPT !.settings = (device.id :> device_settings) @@ @],
                                 "tuya_device", <<"get_tuya_status">>))
          ELSE Continue(t, Issue([T EXCEPT !.settings =
                                     (device.id :> (("tuya_status" :> NoneStatus)
                                                    @@ device_settings)) @@ @],
                                 "sleep_settings", <<"sleep">>))

\* The local-status query of a device not awaited: its result is dropped.
TuyaDeviceDetached(t) ==
    /\ task[t].pc = "tuya_device"
    /\ Continue(t, Issue(task[t], "sleep_settings", <<"sleep">>))

TuyaDeviceReturns(t) ==
    /\ task[t].pc = "tuya_device"
    /\ LET T == task[t]
           device == T.home_devices[T.di]
           tuya_status == get_tuya_status(T.gen, TuyaQueries(T))
       IN Continue(t, Issue([T EXCEPT !.settings =
                                (device.id :> (("tuya_status" :> tuya_status)
                                               @@ T.settings[device.id])) @@ @],
                            "sleep_settings", <<"sleep">>))

SleepSettingsDone(t) ==
    /\ task[t].pc = "sleep_settings"
    /\ Continue(t, SettingsLoop(task[t], task[t].di + 1))

GetMealsReturns(t) ==
    /\ task[t].pc = "get_meals"
    /\ LET T == task[t]
           home_meals == get_meals(T.homes[T.hi], T.gen)
           M == [T EXCEPT !.meals = ExtendMeals(@, home_meals),
                          !.base_data = <<>>, !.base_bound = TRUE]
       IN IF cloud.tuya
          THEN Continue(t, Issue(M, "tuya_base", <<"get_tuya_status">>))
          ELSE Continue(t, Issue([M EXCEPT !.base_data = "tuya_status" :> NoneStatus],
                                 "sleep_home", <<"sleep">>))

TuyaBaseReturns(t) ==
    /\ task[t].pc = "tuya_base"
    /\ LET T == task[t]
           tuya_status == get_tuya_status(T.gen, TuyaQueries(T))
       IN Continue(t, Issue([T EXCEPT !.base_data = "tuya_status" :> tuya_status],
                            "sleep_home", <<"sleep">>))

\* The return statement inside the loop over the homes.
ReturnAfterFirstHome(t) ==
    /\ task[t].pc = "sleep_home"
    /\ ReturnSnapshot(t, task[t])

SleepHomeDone(t) ==
    /\ task[t].pc = "sleep_home"
    /\ HomesLoop(t, task[t], task[t].hi + 1)

\* The awaited client call or local-status query raises err.
CallRaises(t, err) ==
    /\ task[t].pc \in CallPcs
    /\ Failed(t, WrapError(err))

(* --------------------------- async_setup_entry ------------------------ *)
\* "invalid_client" in str(e)
IsAuthError(e) == \E i \in DOMAIN e : e[i] = "invalid_client"

\* The refreshes of the update interval and the requested ones: the platform
\* triggers them while the entities of the entry exist.
Triggerable == coordinator.exists /\ forwarded

\* client = PetsSeriesClient(...); await client.initialize()
\* The registry names the client and the coordinator it holds by the setup
\* that made them: the latest one, or an earlier one. A new setup makes every
\* registered object one of an earlier setup.
Aged(data) == [e \in DOMAIN data |-> [client |-> "earlier", coordinator |-> "earlier"]]

SetupStart ==
    /\ phase = "not_loaded"
    /\ client' = "created"
    /\ hass_data' = Aged(hass_data)
    /\ phase' = "initialize"
    /\ setup_result' = [value |-> "pending", reason |-> NoReason]
    /\ unload_result' = "none"
    /\ unload_log' = <<>>
    /\ UNCHANGED <<cloud, forwarded, coordinator, task>>

\* initialize() returns: the coordinator is made and its first refresh starts.
InitializeReturns ==
    /\ phase = "initialize"
    /\ client' = "open"
    /\ coordinator' = NewCoordinator
    /\ task' = [task EXCEPT !["first"] = StartBuild("first")]
    /\ phase' = "first_refresh"
    /\ UNCHANGED <<cloud, hass_data, forwarded, setup_result, unload_result, unload_log>>

\* The outcome of the except branch of initialize().
InitializeFailure(e) ==
    IF IsAuthError(e) THEN "ConfigEntryAuthFailed" ELSE "False"

InitializeRaises(e) ==
    /\ phase = "initialize"
    /\ setup_result' = [value |-> InitializeFailure(e), reason |-> <<e>>]
    /\ phase' = "not_loaded"
    /\ UNCHANGED <<cloud, client, hass_data, forwarded, coordinator, task,
                   unload_result, unload_log>>

\* async_forward_entry_setups returns: return True
ForwardReturns ==
    /\ phase = "forward"
    /\ forwarded' = TRUE
    /\ setup_result' = [value |-> "True", reason |-> NoReason]
    /\ phase' = "loaded"
    /\ UNCHANGED <<cloud, client, hass_data, coordinator, task, unload_result, unload_log>>

\* async_forward_entry_setups raises: the exception leaves async_setup_entry.
ForwardRaises(e) ==
    /\ phase = "forward"
    /\ setup_result' = [value |-> "Exception", reason |-> <<e>>]
    /\ phase' = "not_loaded"
    /\ UNCHANGED <<cloud, client, hass_data, forwarded, coordinator, task,
                   unload_result, unload_log>>

(* --------------------------- async_unload_entry ----------------------- *)
\* await hass.config_entries.async_unload_platforms(entry, PLATFORMS)
UnloadStart ==
    /\ phase = "loaded"
    /\ forwarded
    /\ phase' = "unload_platforms"
    /\ unload_result' = "pending"
    /\ unload_log' = <<"async_unload_platforms">>
    /\ UNCHANGED <<cloud, client, hass_data, forwarded, coordinator, task, setup_result>>

\* The client closed whatever the platforms reported.
UnloadAlways(unload_ok) == TRUE

\* if unload_ok := ...
UnloadBranch(unload_ok) == unload_ok

UnloadPlatformsReturns(unload_ok) ==
    /\ phase = "unload_platforms"
    /\ forwarded' = ~unload_ok
    /\ IF UnloadBranch(unload_ok)
       THEN /\ phase' = "close"
            /\ unload_log' = Append(unload_log, "close")
            /\ UNCHANGED unload_result
       ELSE /\ phase' = "failed_unload"
            /\ unload_result' = IF unload_ok THEN "True" ELSE "False"
            /\ UNCHANGED unload_log
    /\ UNCHANGED <<cloud, client, hass_data, coordinator, task, setup_result>>

\* client.close() returns; hass.data[DOMAIN].pop(entry.entry_id); return unload_ok.
\* The coordinator is released with the entry, and its coroutines with it.
CloseReturns ==
    /\ phase = "close"
    /\ client' = IF hass_data[Entry].client = "latest" THEN "closed" ELSE client
    /\ hass_data' = <<>>
    /\ unload_log' = Append(unload_log, "pop")
    /\ unload_result' = "True"
    /\ phase' = "not_loaded"
    /\ coordinator' = NoCoordinator
    /\ task' = [t \in Tasks |-> IdleTask]
    /\ UNCHANGED <<cloud, forwarded, setup_result>>

(* ------------------------------ refreshes ----------------------------- *)
\* The update interval elapses, or a refresh is requested.
RefreshStart(t) ==
    /\ t # "first"
    /\ Triggerable
    /\ ~InFlight(t)
    /\ task' = [task EXCEPT ![t] = StartBuild(t)]
    /\ UNCHANGED <<cloud, phase, client, hass_data, forwarded, coordinator,
                   setup_result, unload_result, unload_log>>

(* --------------------------- the specification ------------------------ *)
InitWith(accounts) ==
    /\ cloud \in accounts
    /\ phase = "not_loaded"
    /\ client = "none"
    /\ hass_data = <<>>
    /\ forwarded = FALSE
    /\ coordinator = NoCoordinator
    /\ task = [t \in Tasks |-> IdleTask]
    /\ setup_result = [value |-> "none", reason |-> NoReason]
    /\ unload_result = "none"
    /\ unload_log = <<>>

Init == InitWith(Clouds)

\* One call of the platform at a time.
Quiet == \A t \in Tasks : ~InFlight(t)

BuildStep ==
    \/ \E t \in Tasks : GetHomesReturns(t)
    \/ \E t \in Tasks : GetDevicesReturns(t)
    \/ \E t \in Tasks : SleepDevicesDone(t)
    \/ \E t \in Tasks : GetEventsReturns(t)
    \/ \E t \in Tasks : SleepEventsDone(t)
    \/ \E t \in Tasks : GetSettingsReturns(t)
    \/ \E t \in Tasks : TuyaDeviceReturns(t)
    \/ \E t \in Tasks : SleepSettingsDone(t)
    \/ \E t \in Tasks : GetMealsReturns(t)
    \/ \E t \in Tasks : TuyaBaseReturns(t)
    \/ \E t \in Tasks : SleepHomeDone(t)
    \/ \E t \in Tasks, e \in ErrorTexts : CallRaises(t, e)

SetupStep ==
    \/ SetupStart
    \/ InitializeReturns
    \/ \E e \in ErrorTexts : InitializeRaises(e)
    \/ ForwardReturns
    \/ \E e \in ErrorTexts : ForwardRaises(e)

UnloadStep ==
    \/ \E unload_ok \in BOOLEAN : UnloadPlatformsReturns(unload_ok)
    \/ CloseReturns

\* Refreshes one at a time, as the update interval alone triggers them, and
\* no unload while one runs.
Next ==
    \/ SetupStep
    \/ Quiet /\ UnloadStart
    \/ UnloadStep
    \/ Quiet /\ phase = "loaded" /\ RefreshStart("timer")
    \/ BuildStep

Spec == Init /\ [][Next]_vars

\* Refreshes and unloads requested at any time.
InitInterleaved == InitWith({c \in Clouds : c.nHomes <= MaxHomesInterleaved})

NextInterleaved ==
    \/ SetupStep
    \/ UnloadStart
    \/ UnloadStep
    \/ \E t \in Tasks : RefreshStart(t)
    \/ BuildStep

SpecInterleaved == InitInterleaved /\ [][NextInterleaved]_vars

(* ------------------------------ properties ---------------------------- *)
Published == {coordinator.data[i] : i \in DOMAIN coordinator.data}

DeviceIds == {<<h, k>> : h \in 1 .. cloud.nHomes, k \in 1 .. MaxDevices}

AccountDeviceIds == {d \in DeviceIds : d[2] <= cloud.devCount[d[1]]}

SnapshotKeys == {"homes", "devices", "meals", "events_by_home_and_type",
                 "event_types", "settings", "base_data"}

\* Every key of the snapshot is filled from a traversal of every home.
Complete(snap) ==
    /\ DOMAIN snap = SnapshotKeys
    /\ Len(snap.homes) = cloud.nHomes
    /\ {snap.devices[i].id : i \in DOMAIN snap.devices} = AccountDeviceIds
    /\ Len(snap.meals) = IF cloud.hasMeal THEN cloud.nHomes ELSE 0
    /\ Cardinality(DOMAIN snap.events_by_home_and_type) = cloud.nHomes * NumEventTypes
    /\ Len(snap.event_types) = NumEventTypes
    /\ DOMAIN snap.settings = AccountDeviceIds
    /\ \A d \in DOMAIN snap.settings : DOMAIN snap.settings[d] = {"payload", "tuya_status"}
    /\ DOMAIN snap.base_data = {"tuya_status"}

\* The build of t ends in this step: it returns or raises.
BuildEnds(t) == InFlight(t) /\ task'[t].pc = "idle" /\ phase # "close"

\* The exception a build of t that ended by raising left with its caller.
Surfaced(t) ==
    IF t = "first"
    THEN IF setup_result.value = "ConfigEntryNotReady" THEN setup_result.reason ELSE <<>>
    ELSE coordinator.last_exception

\* C1: when a refresh after the first successful one fails, whatever call
\* raised, the snapshot published before is the one published after: nothing
\* the failed build had accumulated is visible.
C1_FailedRefreshKeepsSnapshot ==
    [][\A t \in Tasks \ {"first"} :
          (BuildEnds(t) /\ coordinator'.last_exception # <<>>)
          => /\ coordinator.data # <<>>
             /\ coordinator'.data = coordinator.data]_vars

C1_Witness ==
    /\ coordinator.data # <<>>
    /\ ~coordinator.last_update_success
    /\ coordinator.last_exception # <<>>
    /\ Quiet

\* C2: a build ends either by returning a snapshot whose seven keys are filled
\* from a traversal of every home, or by raising UpdateFailed whose cause is
\* the exception that was raised inside it; its caller sees nothing else.
C2_CompleteOrUpdateFailed ==
    [][\A t \in Tasks :
          BuildEnds(t)
          => \/ /\ Surfaced(t)' = <<>>
                /\ coordinator'.data # <<>>
                /\ \A snap \in Published' : Complete(snap) /\ snap = Snapshot(task[t])
             \/ /\ Len(Surfaced(t)') = 1
                /\ Surfaced(t)'[1].type = "UpdateFailed"
                /\ Surfaced(t)'[1].cause \in ErrorTexts \cup {UnboundLocalError}
                /\ coordinator'.data \in {<<>>, coordinator.data}]_vars

C2_Witness ==
    /\ setup_result.value = "ConfigEntryNotReady"
    /\ setup_result.reason[1] = WrapError(<<"network", "error">>)
    /\ cloud.nHomes = MaxHomes

\* C3: at most one execution of _async_update_data is in flight.
C3_SingleFlight == Cardinality({t \in Tasks : InFlight(t)}) <= 1

\* C4: a refresh requested while a build is in flight starts no second build:
\* get_homes is not called again before the build in flight has ended.
C4_NoSecondGetHomes ==
    [][\A t \in Tasks :
          (~InFlight(t) /\ task'[t].pc = "get_homes")
          => \A u \in Tasks \ {t} : ~InFlight(u)]_vars

\* C5: the published snapshot is absent or the complete return value of one
\* build: it changes only in the step in which a build returns, to what that
\* build returns, it carries the stamp of one build only, and it is withdrawn
\* only with its coordinator.
C5_SnapshotOfOneBuild ==
    [][/\ \A snap \in Published' : Complete(snap) /\ Cardinality(GensOf(snap)) = 1
       /\ (coordinator'.data # coordinator.data /\ coordinator'.data # <<>>)
          => \E t \in Tasks :
                /\ task[t].pc = "sleep_home"
                /\ task[t].hi = Len(task[t].homes)
                /\ coordinator'.data = <<Snapshot(task[t])>>
                /\ GensOf(Snapshot(task[t])) = {task[t].gen}
       /\ (coordinator'.data # coordinator.data /\ coordinator'.data = <<>>)
          => coordinator' \in {NoCoordinator, NewCoordinator}]_vars

C5_Witness ==
    \E t \in Tasks :
        /\ task[t].pc = "get_settings"
        /\ task[t].hi = 2
        /\ coordinator.data # <<>>
        /\ GensOf(coordinator.data[1]) # {task[t].gen}

\* C6: a failure of a refresh whose original error text contains
\* invalid_client reaches the platform as ConfigEntryAuthFailed.
C6_AuthFailureSurfaced ==
    \A t \in Tasks :
        \A i \in DOMAIN Surfaced(t) :
            IsAuthError(Surfaced(t)[i].cause)
            => Surfaced(t)[i].type = "ConfigEntryAuthFailed"

\* C7: after initialize() raised, the setup has ended with
\* ConfigEntryAuthFailed for an invalid_client text and with False otherwise,
\* no refresh runs, no platform is forwarded and the registry holds no entry.
C7_InitializeFailure ==
    setup_result.value \in {"ConfigEntryAuthFailed", "False"}
    => /\ (setup_result.value = "ConfigEntryAuthFailed") = IsAuthError(setup_result.reason[1])
       /\ Quiet
       /\ ~forwarded
       /\ ~Registered

\* C8: the registry holds an entry only if the latest setup reported success;
\* a setup that ended otherwise left no entry and no forwarded platform.
C8_RegisteredOnlyAfterSuccess ==
    /\ (Registered /\ setup_result.value # "pending") => setup_result.value = "True"
    /\ setup_result.value \in {"ConfigEntryAuthFailed", "False", "ConfigEntryNotReady", "Exception"}
       => ~Registered /\ ~forwarded

\* C9: async_unload_entry closes the client and pops the entry exactly when
\* the platforms reported a successful unload, and after that report; when
\* they did not, the client stays open, the entry registered, the result False.
C9_UnloadOrder ==
    [][/\ (phase' = "close") => ~forwarded'
       /\ (unload_result' = "True")
          => /\ ~forwarded' /\ client' = "closed" /\ ~Registered'
             /\ unload_log' = <<"async_unload_platforms", "close", "pop">>
       /\ (unload_result' = "False")
          => /\ forwarded' /\ client' = "open" /\ Registered'
             /\ unload_log' = <<"async_unload_platforms">>
       /\ (phase = "unload_platforms" /\ phase' # phase)
          => (~forwarded' /\ phase' = "close") \/ (forwarded' /\ unload_result' = "False")
       /\ (client' = "closed" /\ client # "closed") => (phase = "close" /\ ~forwarded)
       /\ (Registered /\ ~Registered') => (phase = "close" /\ client' = "closed")]_vars

C9_Witness ==
    /\ unload_result = "True"
    /\ client = "closed"
    /\ ~Registered
    /\ phase = "not_loaded"

RECURSIVE DevicesOfHomes(_, _)
\* The device lists of the homes, one after the other in listing order.
DevicesOfHomes(homes, g) ==
    IF homes = <<>> THEN <<>>
    ELSE get_devices(Head(homes), g) \o DevicesOfHomes(Tail(homes), g)

RECURSIVE MealsOfHomes(_, _)
MealsOfHomes(homes, g) ==
    IF homes = <<>> THEN <<>>
    ELSE get_meals(Head(homes), g) \o MealsOfHomes(Tail(homes), g)

\* C10: the published devices are the device lists of the homes in listing
\* order, each device once, and the published meals likewise.
C10_DevicesConcatenated ==
    \A snap \in Published :
        /\ snap.devices = DevicesOfHomes(snap.homes, snap.homes[1].gen)
        /\ snap.meals = MealsOfHomes(snap.homes, snap.homes[1].gen)
        /\ \A i, j \in DOMAIN snap.devices : snap.devices[i] = snap.devices[j] => i = j
        /\ \A d \in AccountDeviceIds :
              \E i \in DOMAIN snap.devices : snap.devices[i].id = d

C10_Witness ==
    \E snap \in Published :
        /\ Len(snap.homes) = 2
        /\ Len(snap.devices) = 3
        /\ snap.devices[3].id = <<2, 1>> \/ snap.devices[3].id = <<2, 2>>
        /\ Len(snap.meals) = 2

\* The (home, event type) pairs of a snapshot, by their positions.
PairsOf(snap) == {<<h, e>> : h \in DOMAIN snap.homes, e \in DOMAIN snap.event_types}

\* The text "{home_id}_{event_type}" of the pair p of a snapshot.
KeyOfPair(snap, p) == <<snap.homes[p[1]].id, "_", snap.event_types[p[2]].value>>

\* C11: in every published snapshot events_by_home_and_type has the key
\* "{home_id}_{event_type}" for every (home, event type) pair, also when the
\* list fetched is empty, its value is the list fetched for that pair, and
\* there is no other key: H x E keys in all.
C11_EventKeys ==
    \A snap \in Published :
        LET events == snap.events_by_home_and_type
        IN /\ DOMAIN events = {KeyOfPair(snap, p) : p \in PairsOf(snap)}
           /\ Cardinality(DOMAIN events) = Len(snap.homes) * Len(snap.event_types)
           /\ \A p \in PairsOf(snap) :
                 events[KeyOfPair(snap, p)] =
                     IF p[2] = cloud.quietType
                     THEN <<>>
                     ELSE << [home |-> snap.homes[p[1]].id, type |-> p[2],
                              gen |-> snap.homes[p[1]].gen] >>

C11_Witness ==
    \E snap \in Published :
        /\ Len(snap.homes) = 2
        /\ Cardinality(DOMAIN snap.events_by_home_and_type) = 2 * NumEventTypes
        /\ \E k \in DOMAIN snap.events_by_home_and_type :
              snap.events_by_home_and_type[k] = <<>>
        /\ \E k \in DOMAIN snap.events_by_home_and_type :
              snap.events_by_home_and_type[k] # <<>>

\* C12: without a local backend, every published snapshot has one settings
\* entry per device, each with a tuya_status field that is the empty marker,
\* base_data.tuya_status is that marker too, and no build issues a
\* local-status query.
C12_NoBackendEmptyMarker ==
    ~cloud.tuya
    => /\ \A snap \in Published :
             /\ DOMAIN snap.settings = {snap.devices[i].id : i \in DOMAIN snap.devices}
             /\ \A d \in DOMAIN snap.settings :
                   /\ "tuya_status" \in DOMAIN snap.settings[d]
                   /\ snap.settings[d]["tuya_status"] = [kind |-> "None"]
             /\ DOMAIN snap.base_data = {"tuya_status"}
             /\ snap.base_data["tuya_status"] = [kind |-> "None"]
       /\ \A t \in Tasks :
             /\ TuyaQueries(task[t]) = 0
             /\ task[t].pc \notin {"tuya_device", "tuya_base"}

C12_Witness ==
    /\ ~cloud.tuya
    /\ \E snap \in Published :
          /\ Len(snap.devices) = 3
          /\ Cardinality(DOMAIN snap.settings) = 3

\* C13: between two successive outbound calls of a build a delay is
\* executed: of two calls that follow each other in a build, one is the delay.
C13_DelayBetweenCalls ==
    \A t \in Tasks :
        \A i \in 1 .. Len(task[t].calls) - 1 :
            \/ task[t].calls[i] = <<"sleep">>
            \/ task[t].calls[i + 1] = <<"sleep">>

IsClientCall(c) ==
    c[1] \in {"get_homes", "get_devices", "get_events", "get_settings", "get_meals"}

\* The client calls a build has issued, in the order it issued them.
ClientCalls(T) == SelectSeq(T.calls, IsClientCall)

\* The calls for the home listed h-th: its devices, its events type by type,
\* the settings of its devices device by device, its meals.
CallsOfHome(h) ==
    << <<"get_devices", h>> >>
    \o [e \in 1 .. NumEventTypes |-> <<"get_events", h, e>>]
    \o [k \in 1 .. cloud.devCount[h] |-> <<"get_settings", h, <<h, k>>>>]
    \o << <<"get_meals", h>> >>

RECURSIVE CallsOfHomes(_)
CallsOfHomes(n) == IF n = 0 THEN <<>> ELSE CallsOfHomes(n - 1) \o CallsOfHome(n)

ExpectedCalls == << <<"get_homes">> >> \o CallsOfHomes(cloud.nHomes)

IsPrefix(s, full) == Len(s) <= Len(full) /\ SubSeq(full, 1, Len(s)) = s

\* C14: the client calls of a build are issued in the fixed order get_homes,
\* then home by home in listing order get_devices, get_events per type in
\* enumeration order, get_settings per device of that home in device order,
\* get_meals; a build that is about to return has issued all of them.
C14_CallOrder ==
    \A t \in Tasks :
        InFlight(t)
        => /\ IsPrefix(ClientCalls(task[t]), ExpectedCalls)
           /\ (task[t].pc = "sleep_home" /\ task[t].hi = Len(task[t].homes))
              => ClientCalls(task[t]) = ExpectedCalls

C14_Witness ==
    \E t \in Tasks :
        /\ task[t].pc = "sleep_home"
        /\ task[t].hi = 2
        /\ cloud.devCount[1] = 2
        /\ cloud.devCount[2] = 1
        /\ Len(ClientCalls(task[t])) = 1 + 2 * (NumEventTypes + 2) + 3

\* What holds of the local-status queries of a build T at each of its awaits:
\* a query follows a get_settings or a get_meals and each of these is followed
\* by a query; nothing is issued while a query is awaited and a delay is what
\* follows it; the result of a device's query is in that device's settings
\* once the query has returned, and is the result of that very query.
QueriesAwaited(T) ==
    LET n == Len(T.calls)
    IN /\ \A i \in 1 .. n :
             T.calls[i] = <<"get_tuya_status">>
             => i > 1 /\ T.calls[i - 1][1] \in {"get_settings", "get_meals"}
       /\ \A i \in 1 .. n - 1 :
             T.calls[i][1] \in {"get_settings", "get_meals"}
             => T.calls[i + 1] = <<"get_tuya_status">>
       /\ \A i \in 1 .. n - 1 :
             T.calls[i] = <<"get_tuya_status">> => T.calls[i + 1] = <<"sleep">>
       /\ (T.pc \in {"tuya_device", "tuya_base"})
          <=> (n > 0 /\ T.calls[n] = <<"get_tuya_status">>)
       /\ \A i \in DOMAIN T.devices :
             LET d == T.devices[i].id
             IN d \in DOMAIN T.settings
                => IF T.pc = "tuya_device" /\ T.home_devices[T.di].id = d
                   THEN "tuya_status" \notin DOMAIN T.settings[d]
                   ELSE /\ "tuya_status" \in DOMAIN T.settings[d]
                        /\ T.settings[d]["tuya_status"] =
                              [kind |-> "status", gen |-> T.gen, q |-> i + d[1] - 1]

\* C15: with a local backend, a build that returns has made D + H
\* local-status queries, one after each get_settings and one per home after
\* get_meals; each is awaited before the next call and a device's result is
\* stored in that device's settings; a query that raises fails the refresh.
C15_LocalStatusQueries ==
    [][cloud.tuya
       => \A t \in Tasks :
             /\ InFlight(t)' => QueriesAwaited(task'[t])
             /\ (task'[t].pc = "sleep_home" /\ task'[t].hi = Len(task'[t].homes))
                => TuyaQueries(task'[t]) = Len(task'[t].devices) + Len(task'[t].homes)
             /\ (task[t].pc \in {"tuya_device", "tuya_base"} /\ task'[t] # task[t])
                => \/ task'[t].pc = "sleep_settings" /\ task[t].pc = "tuya_device"
                   \/ task'[t].pc = "sleep_home" /\ task[t].pc = "tuya_base"
                   \/ /\ task'[t].pc = "idle"
                      /\ Len(Surfaced(t)') = 1
                      /\ Surfaced(t)'[1].type = "UpdateFailed"
                      /\ Surfaced(t)'[1].cause \in ErrorTexts
                      /\ coordinator'.data \in {<<>>, coordinator.data}]_vars

C15_Witness ==
    /\ cloud.tuya
    /\ \E snap \in Published :
          /\ Len(snap.homes) = 2
          /\ Len(snap.devices) = 3
          /\ snap.settings[<<2, 1>>]["tuya_status"].q \in {3, 4}
          /\ snap.base_data["tuya_status"].q = 5

\* The devices of a snapshot that belong to its first h homes.
DevicesThrough(snap, h) ==
    Cardinality({i \in DOMAIN snap.devices : snap.devices[i].id[1] <= h})

\* The local-status results a snapshot holds.
StatusesOf(snap) ==
    {snap.settings[d]["tuya_status"] : d \in DOMAIN snap.settings}
    \cup {snap.base_data[k] : k \in DOMAIN snap.base_data}

\* C16: the published base_data is the block of the last home in listing
\* order: its tuya_status is the result of the last local-status query of the
\* build (the empty marker without a local backend), and the results computed
\* for the base_data of the earlier homes are nowhere in the snapshot.
C16_BaseDataOfLastHome ==
    \A snap \in Published :
        LET H == Len(snap.homes)
            D == Len(snap.devices)
            g == snap.homes[1].gen
        IN /\ H >= 1
           /\ DOMAIN snap.base_data = {"tuya_status"}
           /\ snap.base_data["tuya_status"] =
                 IF cloud.tuya THEN [kind |-> "status", gen |-> g, q |-> D + H]
                 ELSE [kind |-> "None"]
           /\ cloud.tuya
              => \A h \in 1 .. H - 1 :
                    [kind |-> "status", gen |-> g, q |-> DevicesThrough(snap, h) + h]
                        \notin StatusesOf(snap)

C16_Witness ==
    /\ cloud.tuya
    /\ \E snap \in Published :
          /\ Len(snap.homes) = 2
          /\ DevicesThrough(snap, 1) = 1
          /\ Len(snap.devices) = 2
          /\ snap.base_data["tuya_status"].q = 4

\* The delays a build has started.
Delays(T) == Cardinality({i \in DOMAIN T.calls : T.calls[i] = <<"sleep">>})

\* C17: a build that returns has executed H * (E + 2) + D delays, one right
\* after each get_devices and each get_events, one per device after its
\* settings step and one that ends the iteration of each home; a build that
\* fails executed no delay after the call that failed.
C17_DelayCount ==
    [][\A t \in Tasks :
          BuildEnds(t)
          => LET T == task[t]
                 n == Len(T.calls)
             IN IF Surfaced(t)' = <<>>
                THEN /\ Delays(T) = Len(T.homes) * (NumEventTypes + 2) + Len(T.devices)
                     /\ T.pc = "sleep_home"
                     /\ T.calls[n] = <<"sleep">>
                     /\ \A i \in 1 .. n - 1 :
                           T.calls[i][1] \in {"get_devices", "get_events"}
                           => T.calls[i + 1] = <<"sleep">>
                ELSE /\ T.pc \in CallPcs
                     /\ T.calls[n] # <<"sleep">>]_vars

C17_Witness ==
    \E t \in Tasks :
        /\ task[t].pc = "sleep_home"
        /\ task[t].hi = 2
        /\ Len(task[t].devices) = 3
        /\ Delays(task[t]) = 2 * (NumEventTypes + 2) + 3

\* C18: a failed refresh leaves the coordinator idle with the snapshot it had
\* and marked failed; the next trigger can start a build, which starts with
\* nothing of the failed one; when that build returns, its snapshot, made of
\* its own responses only, is published and the mark cleared.
C18_FailureDoesNotBlock ==
    [][/\ \A t \in Tasks \ {"first"} :
             (BuildEnds(t) /\ coordinator'.last_exception # <<>>)
             => /\ ~InFlight(t)'
                /\ coordinator'.data = coordinator.data
                /\ ~coordinator'.last_update_success
       /\ (~coordinator.last_update_success /\ Triggerable /\ Quiet /\ phase = "loaded")
          => ENABLED RefreshStart("timer")
       /\ \A t \in Tasks :
             (~InFlight(t) /\ InFlight(t)' /\ ~coordinator.last_update_success)
             => /\ task'[t] = [IdleTask EXCEPT !.pc = "get_homes",
                                               !.gen = task'[t].gen,
                                               !.calls = << <<"get_homes">> >>]
                /\ \A snap \in Published : task'[t].gen \notin GensOf(snap)
       /\ \A t \in Tasks :
             (BuildEnds(t) /\ ~coordinator.last_update_success
                /\ coordinator'.last_exception = <<>>)
             => /\ coordinator'.data = <<Snapshot(task[t])>>
                /\ coordinator'.data # coordinator.data
                /\ GensOf(Snapshot(task[t])) = {task[t].gen}
                /\ coordinator'.last_update_success]_vars

C18_Witness ==
    /\ ~coordinator.last_update_success
    /\ coordinator.last_exception # <<>>
    /\ coordinator.data # <<>>
    /\ cloud.hasMeal
    /\ task["timer"].pc = "sleep_home"
    /\ task["timer"].hi = Len(task["timer"].homes)
    /\ task["timer"].hi = 2

\* C19: a build fails only when a call of it fails: the cause of every
\* failure a build surfaced is the error of a client call or of a
\* local-status query, and an account without homes yields a snapshot.
C19_FailsOnlyWhenCallFails ==
    \A t \in Tasks :
        \A i \in DOMAIN Surfaced(t) : Surfaced(t)[i].cause \in ErrorTexts

\* C20: once async_setup_entry has ended, a client it initialized is closed
\* or is the client the registry holds for the entry.
C20_InitializedClientReachable ==
    (phase = "not_loaded" /\ client = "open")
    => (Registered /\ hass_data[Entry].client = "latest")

====
